---- MODULE Spec2Model ----
(***************************************************************************)
(* Credential management of the backend (src/main.py): hash_password,      *)
(* verify_password and the /auth/signup and /auth/login handlers working   *)
(* on the "user" collection of the document store.                         *)
(*                                                                         *)
(* Strings are sequences of one-character strings.  The handlers are sync  *)
(* FastAPI endpoints, so they run on a thread pool: each worker executes   *)
(* one handler at a time and the workers interleave at the store calls     *)
(* (find_one, insert_one).  The created_at / updated_at timestamps of a    *)
(* document are not modelled.                                              *)
(***************************************************************************)
EXTENDS Integers, Sequences, FiniteSets, TLC

VARIABLES dbConfigured, users, pc, req, user, doc, resp, prev, last, ver

vars == <<dbConfigured, users, pc, req, user, doc, resp, prev, last, ver>>
svars == <<dbConfigured, users, pc, req, user, doc, resp>>
hvars == <<prev, last, ver>>

\* ---------------------------------------------------------------- bounds
MaxUsers == 2        \* documents the "user" collection may hold
RandBits == 1        \* trailing characters of a random string that vary
MaxLen == 2          \* length of the password / salt arguments (SpecHash)
MaxStoredLen == 3    \* length of the arbitrary stored strings (SpecHash)

\* ------------------------------------------------------------- constants
SALT_LEN == 16
DigestLen == 64
TokenBytes == 24

Procs == {"w1", "w2"}

None == <<"None">>
DELIM == "$"

\* ------------------------------------------------------- string helpers
RECURSIVE StringsUpTo(_, _)
StringsUpTo(n, alphabet) ==
    IF n = 0 THEN {<<>>}
    ELSE LET shorter == StringsUpTo(n - 1, alphabet)
         IN  shorter \cup {Append(s, c) : s \in shorter, c \in alphabet}

LowerChar(c) == IF c = "A" THEN "a" ELSE IF c = "X" THEN "x" ELSE c

\* str.lower()
lower(s) == [i \in 1..Len(s) |-> LowerChar(s[i])]

\* str.strip()
RECURSIVE strip(_)
strip(s) ==
    IF s = <<>> THEN s
    ELSE IF Head(s) = " " THEN strip(Tail(s))
    ELSE IF s[Len(s)] = " " THEN strip(SubSeq(s, 1, Len(s) - 1))
    ELSE s

\* str.split(sep): the parts between the occurrences of sep; "" gives [""]
RECURSIVE split(_, _)
split(s, sep) ==
    LET hits == {i \in 1..Len(s) : s[i] = sep}
    IN  IF hits = {} THEN <<s>>
        ELSE LET i == CHOOSE k \in hits : \A j \in hits : k <= j
             IN  <<SubSeq(s, 1, i - 1)>> \o split(SubSeq(s, i + 1, Len(s)), sep)

\* ------------------------------------------------------------ randomness
HexDigits == <<"0","1","2","3","4","5","6","7","8","9","a","b","c","d","e","f">>

RandomStrings(len) ==
    { [i \in 1..len |-> IF i > len - RandBits THEN b[i - (len - RandBits)] ELSE "0"] :
        b \in [1..RandBits -> {"0", "1"}] }

\* secrets.token_hex(nbytes): 2 * nbytes hexadecimal characters
token_hex(nbytes) == RandomStrings(2 * nbytes)

\* secrets.token_urlsafe(nbytes): base64url text of nbytes random bytes
token_urlsafe(nbytes) == RandomStrings((nbytes * 4) \div 3)

\* ---------------------------------------------------------------- hashing
CharTable == <<"0", "1", "$", "a", "b", "p", "q">>
Code(c) == CHOOSE k \in 1..Len(CharTable) : CharTable[k] = c

\* hashlib.sha256(x.encode()).hexdigest(): DigestLen hexadecimal characters,
\* collision-free on the inputs of the model (at most DigestLen characters)
sha256_hexdigest(x) ==
    [i \in 1..DigestLen |-> IF i <= Len(x) THEN HexDigits[Code(x[i]) + 1] ELSE "0"]

\* hash_password with the password left out of the digest
hash_password_nopw(password, salt, rnd) ==
    LET s == IF salt = None \/ salt = <<>> THEN rnd ELSE salt
        h == sha256_hexdigest(s)
    IN  s \o <<DELIM>> \o h

\* hash_password hashing password + salt instead of salt + password
hash_password_swapped(password, salt, rnd) ==
    LET s == IF salt = None \/ salt = <<>> THEN rnd ELSE salt
        h == sha256_hexdigest(password \o s)
    IN  s \o <<DELIM>> \o h

\* hash_password(password, salt=None); rnd is the draw of secrets.token_hex
hash_password(password, salt, rnd) ==
    LET s == IF salt = None \/ salt = <<>> THEN rnd ELSE salt
        h == sha256_hexdigest(s \o password)
    IN  s \o <<DELIM>> \o h

\* verify_password without the except clause: the ValueError escapes
verify_password_noexcept(password, stored, rnd) ==
    LET parts == split(stored, DELIM)
    IN  IF Len(parts) # 2
        THEN [raised |-> TRUE, value |-> FALSE]
        ELSE [raised |-> FALSE,
              value |-> hash_password(password, parts[1], rnd) = stored]

\* verify_password that does not pass the stored salt on
verify_password_nosalt(password, stored, rnd) ==
    LET parts == split(stored, DELIM)
    IN  IF Len(parts) # 2
        THEN [raised |-> FALSE, value |-> FALSE]
        ELSE [raised |-> FALSE,
              value |-> hash_password(password, None, rnd) = stored]

\* verify_password(password, stored); the result says whether the call
\* raised and, when it returned, the value it returned
verify_password(password, stored, rnd) ==
    LET parts == split(stored, DELIM)
    IN  IF Len(parts) # 2
        THEN [raised |-> FALSE, value |-> FALSE]
        ELSE [raised |-> FALSE,
              value |-> hash_password(password, parts[1], rnd) = stored]

\* ------------------------------------------------------- requests, replies
\* req.email is the address EmailStr validated: the case of its local part is kept
Emails == { <<"a","@","x">>, <<"A","@","x">>, <<"b","@","x">> }
Names == { <<" ","n"," ">> }
Passwords == { <<"p">>, <<"q">> }

NoReq == [kind |-> "none", name |-> <<>>, email |-> <<>>, password |-> <<>>]
NoDoc == [id |-> 0, name |-> <<>>, email |-> <<>>, password_hash |-> <<>>]
NoResp == [status |-> 0, detail |-> "", token |-> <<>>, user_id |-> 0,
           name |-> <<>>, email |-> <<>>]

\* HTTPException(status_code, detail)
HTTPException(status, detail) ==
    [status |-> status, detail |-> detail, token |-> <<>>, user_id |-> 0,
     name |-> <<>>, email |-> <<>>]

StoreUnavailable == HTTPException(500, "Database not configured")
DuplicateEmail == HTTPException(400, "Email already registered")
InvalidCredentials == HTTPException(401, "Invalid credentials")

\* users.find_one({"email": email}): the documents the filter matches; the
\* store returns one of them (its natural order decides which), or None
find_one(coll, email) == {coll[i] : i \in {j \in DOMAIN coll : coll[j].email = email}}

Inserting == {w \in Procs : pc[w] = "signup_insert"}

\* ------------------------------------------------------------------ Init
Init ==
    /\ dbConfigured \in BOOLEAN
    /\ users = <<>>
    /\ pc = [w \in Procs |-> "idle"]
    /\ req = [w \in Procs |-> NoReq]
    /\ user = [w \in Procs |-> NoDoc]
    /\ doc = [w \in Procs |-> NoDoc]
    /\ resp = [w \in Procs |-> NoResp]
    /\ prev = [fn |-> "none", password |-> <<>>, salt |-> <<>>, out |-> <<>>]
    /\ last = prev
    /\ ver = [fn |-> "none", password |-> <<>>, stored |-> <<>>,
              out |-> [raised |-> FALSE, value |-> FALSE]]

\* --------------------------------------------------------------- signup
\* signup_check without the db check
signup_check_nodb(w, name, email, password) ==
    /\ pc[w] \in {"idle", "done"}
    /\ req' = [req EXCEPT ![w] = [kind |-> "signup", name |-> name,
                                  email |-> email, password |-> password]]
    /\ user' = [user EXCEPT ![w] = NoDoc]
    /\ users' = users
    /\ IF find_one(users, email) # {}
       THEN /\ resp' = [resp EXCEPT ![w] = DuplicateEmail]
            /\ doc' = [doc EXCEPT ![w] = NoDoc]
            /\ pc' = [pc EXCEPT ![w] = "done"]
       ELSE /\ Len(users) + Cardinality(Inserting) < MaxUsers
            /\ \E rnd \in token_hex(SALT_LEN) :
                 doc' = [doc EXCEPT ![w] =
                           [id |-> 0,
                            name |-> strip(name),
                            email |-> lower(email),
                            password_hash |-> hash_password(password, None, rnd)]]
            /\ resp' = [resp EXCEPT ![w] = NoResp]
            /\ pc' = [pc EXCEPT ![w] = "signup_insert"]
    /\ UNCHANGED <<dbConfigured, hvars>>

\* signup, up to the insert: the db check, the existence check, the document
signup_check(w, name, email, password) ==
    /\ pc[w] \in {"idle", "done"}
    /\ req' = [req EXCEPT ![w] = [kind |-> "signup", name |-> name,
                                  email |-> email, password |-> password]]
    /\ user' = [user EXCEPT ![w] = NoDoc]
    /\ users' = users
    /\ IF ~dbConfigured
       THEN /\ resp' = [resp EXCEPT ![w] = StoreUnavailable]
            /\ doc' = [doc EXCEPT ![w] = NoDoc]
            /\ pc' = [pc EXCEPT ![w] = "done"]
       ELSE IF find_one(users, email) # {}
       THEN /\ resp' = [resp EXCEPT ![w] = DuplicateEmail]
            /\ doc' = [doc EXCEPT ![w] = NoDoc]
            /\ pc' = [pc EXCEPT ![w] = "done"]
       ELSE /\ Len(users) + Cardinality(Inserting) < MaxUsers
            /\ \E rnd \in token_hex(SALT_LEN) :
                 doc' = [doc EXCEPT ![w] =
                           [id |-> 0,
                            name |-> strip(name),
                            email |-> lower(email),
                            password_hash |-> hash_password(password, None, rnd)]]
            /\ resp' = [resp EXCEPT ![w] = NoResp]
            /\ pc' = [pc EXCEPT ![w] = "signup_insert"]
    /\ UNCHANGED <<dbConfigured, hvars>>

\* signup_insert on a store that checks the email again while it inserts
signup_insert_unique(w) ==
    /\ pc[w] = "signup_insert"
    /\ IF find_one(users, doc[w].email) # {}
       THEN /\ users' = users
            /\ resp' = [resp EXCEPT ![w] = DuplicateEmail]
       ELSE LET inserted_id == Len(users) + 1
            IN  /\ users' = Append(users, [doc[w] EXCEPT !.id = inserted_id])
                /\ resp' = [resp EXCEPT ![w] =
                              [status |-> 200, detail |-> "", token |-> <<>>,
                               user_id |-> inserted_id,
                               name |-> doc[w].name, email |-> doc[w].email]]
    /\ doc' = [doc EXCEPT ![w] = NoDoc]
    /\ pc' = [pc EXCEPT ![w] = "done"]
    /\ UNCHANGED <<dbConfigured, req, user, hvars>>

\* signup, from users.insert_one(doc) to the return
signup_insert(w) ==
    /\ pc[w] = "signup_insert"
    /\ LET inserted_id == Len(users) + 1
       IN  /\ users' = Append(users, [doc[w] EXCEPT !.id = inserted_id])
           /\ resp' = [resp EXCEPT ![w] =
                         [status |-> 200, detail |-> "", token |-> <<>>,
                          user_id |-> inserted_id,
                          name |-> doc[w].name, email |-> doc[w].email]]
    /\ doc' = [doc EXCEPT ![w] = NoDoc]
    /\ pc' = [pc EXCEPT ![w] = "done"]
    /\ UNCHANGED <<dbConfigured, req, user, hvars>>

\* ---------------------------------------------------------------- login
\* login that tells an unknown email from a wrong password
login_distinct(w, email, password) ==
    /\ pc[w] \in {"idle", "done"}
    /\ req' = [req EXCEPT ![w] = [kind |-> "login", name |-> <<>>,
                                  email |-> email, password |-> password]]
    /\ pc' = [pc EXCEPT ![w] = "done"]
    /\ doc' = [doc EXCEPT ![w] = NoDoc]
    /\ IF ~dbConfigured
       THEN /\ resp' = [resp EXCEPT ![w] = StoreUnavailable]
            /\ user' = [user EXCEPT ![w] = NoDoc]
       ELSE LET found == find_one(users, lower(email))
            IN  IF found = {}
                THEN /\ user' = [user EXCEPT ![w] = NoDoc]
                     /\ resp' = [resp EXCEPT ![w] = HTTPException(404, "User not found")]
                ELSE \E u \in found, rnd \in token_hex(SALT_LEN) :
                       /\ user' = [user EXCEPT ![w] = u]
                       /\ IF ~verify_password(password, u.password_hash, rnd).value
                          THEN resp' = [resp EXCEPT ![w] = InvalidCredentials]
                          ELSE \E token \in token_urlsafe(TokenBytes) :
                                 resp' = [resp EXCEPT ![w] =
                                            [status |-> 200, detail |-> "",
                                             token |-> token, user_id |-> u.id,
                                             name |-> u.name, email |-> u.email]]
    /\ UNCHANGED <<dbConfigured, users, hvars>>

\* login that stores a fresh hash of the password after a successful check
login_rehash(w, email, password) ==
    /\ pc[w] \in {"idle", "done"}
    /\ req' = [req EXCEPT ![w] = [kind |-> "login", name |-> <<>>,
                                  email |-> email, password |-> password]]
    /\ pc' = [pc EXCEPT ![w] = "done"]
    /\ doc' = [doc EXCEPT ![w] = NoDoc]
    /\ IF ~dbConfigured
       THEN /\ resp' = [resp EXCEPT ![w] = StoreUnavailable]
            /\ user' = [user EXCEPT ![w] = NoDoc]
            /\ users' = users
       ELSE LET found == find_one(users, lower(email))
            IN  IF found = {}
                THEN /\ user' = [user EXCEPT ![w] = NoDoc]
                     /\ resp' = [resp EXCEPT ![w] = InvalidCredentials]
                     /\ users' = users
                ELSE \E u \in found, rnd \in token_hex(SALT_LEN) :
                       /\ user' = [user EXCEPT ![w] = u]
                       /\ IF ~verify_password(password, u.password_hash, rnd).value
                          THEN /\ resp' = [resp EXCEPT ![w] = InvalidCredentials]
                               /\ users' = users
                          ELSE \E token \in token_urlsafe(TokenBytes),
                                  again \in token_hex(SALT_LEN) :
                                 /\ users' = [users EXCEPT ![u.id].password_hash =
                                                hash_password(password, None, again)]
                                 /\ resp' = [resp EXCEPT ![w] =
                                            [status |-> 200, detail |-> "",
                                             token |-> token, user_id |-> u.id,
                                             name |-> u.name, email |-> u.email]]
    /\ UNCHANGED <<dbConfigured, hvars>>

\* login: the whole handler (its one store call is find_one)
login(w, email, password) ==
    /\ pc[w] \in {"idle", "done"}
    /\ req' = [req EXCEPT ![w] = [kind |-> "login", name |-> <<>>,
                                  email |-> email, password |-> password]]
    /\ pc' = [pc EXCEPT ![w] = "done"]
    /\ doc' = [doc EXCEPT ![w] = NoDoc]
    /\ IF ~dbConfigured
       THEN /\ resp' = [resp EXCEPT ![w] = StoreUnavailable]
            /\ user' = [user EXCEPT ![w] = NoDoc]
       ELSE LET found == find_one(users, lower(email))
            IN  IF found = {}
                THEN /\ user' = [user EXCEPT ![w] = NoDoc]
                     /\ resp' = [resp EXCEPT ![w] = InvalidCredentials]
                ELSE \E u \in found, rnd \in token_hex(SALT_LEN) :
                       /\ user' = [user EXCEPT ![w] = u]
                       /\ IF ~verify_password(password, u.password_hash, rnd).value
                          THEN resp' = [resp EXCEPT ![w] = InvalidCredentials]
                          ELSE \E token \in token_urlsafe(TokenBytes) :
                                 resp' = [resp EXCEPT ![w] =
                                            [status |-> 200, detail |-> "",
                                             token |-> token, user_id |-> u.id,
                                             name |-> u.name, email |-> u.email]]
    /\ UNCHANGED <<dbConfigured, users, hvars>>

Next ==
    \/ \E w \in Procs, name \in Names, email \in Emails, password \in Passwords :
         signup_check(w, name, email, password)
    \/ \E w \in Procs : signup_insert(w)
    \/ \E w \in Procs, email \in Emails, password \in Passwords :
         login(w, email, password)

Spec == Init /\ [][Next]_vars

\* The same handlers with the requests served one at a time: a request is
\* taken up only when no signup is between its check and its insert.
NextSeq ==
    \/ \E w \in Procs, name \in Names, email \in Emails, password \in Passwords :
         Inserting = {} /\ signup_check(w, name, email, password)
    \/ \E w \in Procs : signup_insert(w)
    \/ \E w \in Procs, email \in Emails, password \in Passwords :
         Inserting = {} /\ login(w, email, password)

SpecSeq == Init /\ [][NextSeq]_vars

\* ------------------------------------------ the password functions alone
\* Calls of hash_password and verify_password on bounded arguments: last is
\* the latest hash_password call, prev the same call made once before, ver
\* the latest verify_password call (on last's record when last is set).
\* The functions keep no state, so every run starts from the initial state
\* and makes one call, or a call of hash_password and a second call on it.
NoCall == [fn |-> "none", password |-> <<>>, salt |-> <<>>, out |-> <<>>]
NoVer == [fn |-> "none", password |-> <<>>, stored |-> <<>>,
          out |-> [raised |-> FALSE, value |-> FALSE]]

StrArgs == StringsUpTo(MaxLen, {"a", DELIM})
SaltArgs == StrArgs \cup {None}

\* stored strings: every short string, records with an empty salt and the
\* digest of the password alone, records with a doubled delimiter
StoredInputs ==
    StringsUpTo(MaxStoredLen, {"a", DELIM})
      \cup {<<DELIM>> \o sha256_hexdigest(p) : p \in StrArgs}
      \cup {<<"a", DELIM, DELIM>> \o sha256_hexdigest(<<"a">> \o p) : p \in StrArgs}

Fresh == last = NoCall /\ prev = NoCall /\ ver = NoVer

hash_call(password, salt) ==
    /\ Fresh
    /\ \E rnd \in token_hex(SALT_LEN) :
         last' = [fn |-> "hash_password", password |-> password, salt |-> salt,
                  out |-> hash_password(password, salt, rnd)]
    /\ prev' = NoCall
    /\ ver' = NoVer
    /\ UNCHANGED svars

hash_again ==
    /\ last.fn = "hash_password"
    /\ prev = NoCall /\ ver = NoVer
    /\ prev' = last
    /\ \E rnd \in token_hex(SALT_LEN) :
         last' = [last EXCEPT !.out = hash_password(last.password, last.salt, rnd)]
    /\ ver' = NoVer
    /\ UNCHANGED svars

verify_record(password) ==
    /\ last.fn = "hash_password"
    /\ prev = NoCall /\ ver = NoVer
    /\ \E rnd \in token_hex(SALT_LEN) :
         ver' = [fn |-> "verify_password", password |-> password, stored |-> last.out,
                 out |-> verify_password(password, last.out, rnd)]
    /\ UNCHANGED <<last, prev, svars>>

verify_stored(password, stored) ==
    /\ Fresh
    /\ \E rnd \in token_hex(SALT_LEN) :
         ver' = [fn |-> "verify_password", password |-> password, stored |-> stored,
                 out |-> verify_password(password, stored, rnd)]
    /\ last' = NoCall
    /\ prev' = NoCall
    /\ UNCHANGED svars

NextHash ==
    \/ \E password \in StrArgs, salt \in SaltArgs : hash_call(password, salt)
    \/ hash_again
    \/ \E password \in StrArgs : verify_record(password)
    \/ \E password \in StrArgs, stored \in StoredInputs : verify_stored(password, stored)

SpecHash == Init /\ [][NextHash]_vars

\* ================================================================ claims
HasDelim(s) == \E i \in 1..Len(s) : s[i] = DELIM

\* a stored string that is not exactly two non-empty parts around one "$"
Malformed(stored) ==
    \/ Cardinality({i \in 1..Len(stored) : stored[i] = DELIM}) # 1
    \/ stored[1] = DELIM
    \/ stored[Len(stored)] = DELIM

\* the step is worker w taking up a signup request (signup_check)
SignupChecked(w) ==
    /\ pc[w] \in {"idle", "done"}
    /\ req'[w].kind = "signup"
    /\ <<pc[w], req[w], resp[w], doc[w]>> # <<pc'[w], req'[w], resp'[w], doc'[w]>>

\* the step is worker w handling a login request
LoginStepped(w) ==
    /\ pc[w] \in {"idle", "done"}
    /\ req'[w].kind = "login"
    /\ <<pc[w], req[w], resp[w], user[w]>> # <<pc'[w], req'[w], resp'[w], user'[w]>>

\* account a was signed up with password p
SignedUpWith(a, p) ==
    \E rnd \in token_hex(SALT_LEN) : a.password_hash = hash_password(p, None, rnd)

FailedLogin(w) ==
    /\ dbConfigured
    /\ pc[w] = "done"
    /\ req[w].kind = "login"
    /\ resp[w].status # 200

\* C1: a signup whose email equals, ignoring case, the email of an account
\* already stored fails with DuplicateEmail, goes no further towards the
\* insert and leaves the collection as it was.
C1_DuplicateRejected ==
    [][\A w \in Procs :
         (SignupChecked(w)
            /\ \E i \in DOMAIN users : users[i].email = lower(req'[w].email))
         => (resp'[w] = DuplicateEmail /\ pc'[w] = "done" /\ users' = users)]_vars

\* C2: a login that fails for an unknown email and a login that fails for a
\* wrong password give the same reply, InvalidCredentials (401).
C2_SameFailure ==
    /\ \A w \in Procs : FailedLogin(w) => resp[w] = InvalidCredentials
    /\ \A w, v \in Procs :
         (FailedLogin(w) /\ user[w] = NoDoc /\ FailedLogin(v) /\ user[v] # NoDoc)
         => resp[w] = resp[v]

C2_Witness ==
    \E w, v \in Procs :
      /\ FailedLogin(w) /\ user[w] = NoDoc
      /\ FailedLogin(v) /\ user[v] # NoDoc
      /\ resp[w].status = 401

\* C3: verify_password returns False, and does not raise, on every stored
\* string that is not two non-empty parts around exactly one "$".
C3_MalformedIsFalse ==
    (ver.fn = "verify_password" /\ Malformed(ver.stored))
    => ver.out = [raised |-> FALSE, value |-> FALSE]

C3_Witness ==
    /\ ver.fn = "verify_password"
    /\ ver.stored = <<DELIM>> \o sha256_hexdigest(ver.password)
    /\ ver.password # <<>>
    /\ ver.out = [raised |-> FALSE, value |-> FALSE]

\* C4 as claimed: verify_password(p, hash_password(p, s)) is True for every
\* p and every s, a salt containing "$" included.
C4_RoundTripAnySalt ==
    (last.fn = "hash_password" /\ ver.fn = "verify_password"
       /\ ver.stored = last.out /\ ver.password = last.password)
    => ver.out = [raised |-> FALSE, value |-> TRUE]

\* C4 amended: verify_password(p, hash_password(p, s)) is True for every p
\* and every salt s without "$" (an empty or omitted salt included), and
\* False for a salt that contains "$".
C4_RoundTrip ==
    (last.fn = "hash_password" /\ ver.fn = "verify_password"
       /\ ver.stored = last.out /\ ver.password = last.password)
    => ver.out = [raised |-> FALSE, value |-> ~HasDelim(last.salt)]

C4_Witness ==
    /\ last.fn = "hash_password" /\ last.salt = <<>> /\ last.password # <<>>
    /\ ver.fn = "verify_password"
    /\ ver.stored = last.out /\ ver.password = last.password
    /\ ver.out.value

\* C5: verify_password(p, hash_password(p2, s)) is False whenever p # p2,
\* for every salt s.
C5_WrongPasswordRejected ==
    (last.fn = "hash_password" /\ ver.fn = "verify_password"
       /\ ver.stored = last.out /\ ver.password # last.password)
    => ver.out = [raised |-> FALSE, value |-> FALSE]

C5_Witness ==
    /\ last.fn = "hash_password" /\ last.salt = <<"a">>
    /\ ver.fn = "verify_password"
    /\ ver.stored = last.out /\ ver.password # last.password
    /\ ~ver.out.value

\* C6: once a signup with email e and password p has succeeded, every later
\* login with a case variant of e succeeds with p, returning a token and
\* that account's id, name and email, and fails with InvalidCredentials
\* with any other password.
C6_EndToEnd ==
    [][\A w \in Procs :
         LoginStepped(w) =>
           \A i \in DOMAIN users :
             users[i].email = lower(req'[w].email) =>
               IF SignedUpWith(users[i], req'[w].password)
               THEN /\ resp'[w].status = 200
                    /\ resp'[w].token \in token_urlsafe(TokenBytes)
                    /\ resp'[w].user_id = users[i].id
                    /\ resp'[w].name = users[i].name
                    /\ resp'[w].email = users[i].email
               ELSE resp'[w] = InvalidCredentials]_vars

\* C7: with no store configured, signup and login answer StoreUnavailable
\* (500) and nothing else happens: no lookup result, no document built, no
\* insert pending, no account stored, no other reply.
C7_StoreUnavailableFirst ==
    ~dbConfigured =>
      /\ users = <<>>
      /\ \A w \in Procs :
           /\ pc[w] \in {"idle", "done"}
           /\ user[w] = NoDoc
           /\ doc[w] = NoDoc
           /\ pc[w] = "done" => resp[w] = StoreUnavailable

C7_Witness ==
    /\ ~dbConfigured
    /\ \E w, v \in Procs :
         /\ pc[w] = "done" /\ req[w].kind = "signup" /\ resp[w] = StoreUnavailable
         /\ pc[v] = "done" /\ req[v].kind = "login" /\ resp[v] = StoreUnavailable

\* C8 as claimed: two calls hash_password(p, s) with the same explicit salt
\* s, the empty string included, return the same record s + "$" + H(s + p).
C8_DeterministicAnySalt ==
    (prev.fn = "hash_password" /\ last.fn = "hash_password" /\ last.salt # None)
    => /\ last.out = prev.out
       /\ last.out = last.salt \o <<DELIM>> \o sha256_hexdigest(last.salt \o last.password)

\* C8 amended: two calls hash_password(p, s) with the same non-empty salt s
\* return the same record s + "$" + H(s + p).
C8_Deterministic ==
    (prev.fn = "hash_password" /\ last.fn = "hash_password"
       /\ last.salt # None /\ last.salt # <<>>)
    => /\ last.out = prev.out
       /\ last.out = last.salt \o <<DELIM>> \o sha256_hexdigest(last.salt \o last.password)

C8_Witness ==
    /\ prev.fn = "hash_password" /\ last.fn = "hash_password"
    /\ last.salt = <<"a">> /\ last.password = <<DELIM, "a">>
    /\ last.out = prev.out

\* C9: the insert of a signup is not guarded by its existence check: a
\* signup that passed the check still inserts, and succeeds, when an account
\* with its email has been stored in the meantime.
C9_InsertNotGuarded ==
    [][\A w \in Procs :
         (pc[w] = "signup_insert" /\ pc'[w] = "done"
            /\ \E i \in DOMAIN users : users[i].email = doc[w].email)
         => /\ Len(users') = Len(users) + 1
            /\ users'[Len(users')].email = doc[w].email
            /\ resp'[w].status = 200]_vars

\* two signups with the same, already lower-case, email both succeeded and
\* two accounts with that email are stored
C9_Witness ==
    \E w, v \in Procs :
      /\ w # v
      /\ pc[w] = "done" /\ req[w].kind = "signup" /\ resp[w].status = 200
      /\ pc[v] = "done" /\ req[v].kind = "signup" /\ resp[v].status = 200
      /\ req[w].email = req[v].email
      /\ req[w].email = lower(req[w].email)
      /\ resp[w].user_id # resp[v].user_id
      /\ users[resp[w].user_id].email = users[resp[v].user_id].email

\* C10: the collection changes only by a successful signup appending one
\* account; stored accounts are never changed or removed; a login and a
\* failed signup leave the collection as it was.
C10_Lifecycle ==
    [][/\ Len(users') >= Len(users)
       /\ SubSeq(users', 1, Len(users)) = users
       /\ users' # users =>
            /\ Len(users') = Len(users) + 1
            /\ \E w \in Procs :
                 /\ pc[w] = "signup_insert" /\ pc'[w] = "done"
                 /\ req'[w].kind = "signup" /\ resp'[w].status = 200
                 /\ users'[Len(users')].id = resp'[w].user_id
       /\ \A w \in Procs : LoginStepped(w) => users' = users
       /\ \A w \in Procs :
            (req'[w].kind = "signup" /\ resp'[w] # resp[w]
               /\ resp'[w].status \in {400, 500}) => users' = users]_vars

C10_Witness ==
    /\ users # <<>>
    /\ \E w, v \in Procs :
         /\ pc[w] = "done" /\ req[w].kind = "login" /\ resp[w].status = 200
         /\ pc[v] = "done" /\ req[v].kind = "signup" /\ resp[v].status = 400

====
